---- MODULE Spec2Model ----
(***************************************************************************)
(* Model of the ToneClone CLI API client (pkg/client/client.go): client   *)
(* construction, the transport (makeRequest), the response decoder         *)
(* (doRequest) and the rate-limit retry engine (doRequestWithRetry).       *)
(*                                                                         *)
(* Go's int and time.Duration are 64-bit on every platform the Makefile    *)
(* builds for.  TLC's integers are 32-bit, so a 64-bit value is a          *)
(* little-endian sequence of 8 limbs in base 256 (two's complement).       *)
(* Strings that the code parses (header values) are sequences of           *)
(* one-character strings.  Client timeouts are in whole seconds.           *)
(***************************************************************************)
EXTENDS Integers, Sequences, FiniteSets, TLC

(***************************************************************************)
(* State                                                                   *)
(***************************************************************************)
VARIABLES
    client,     \* the Client built by NewClient
    call,       \* the verb call in progress: method, path, body, target, context
    pc,         \* "idle", "inflight" (inside httpClient.Do), "wait" (the select), "done"
    ctxState,   \* the caller's context: "active", "canceled", "deadline_exceeded"
    attempt,    \* the loop counter of doRequestWithRetry
    delay,      \* the delay handed to time.After
    err,        \* the error of the current iteration, then the error returned
    target,     \* what the caller's decode target holds
    lastResp,   \* the response of the latest round trip, NoResponse if none came
    sent,       \* the requests handed to httpClient.Do during this call
    outcomes,   \* the kind of error each iteration's doRequest returned
    waits,      \* how many times the select blocked during this call
    applied,    \* the options NewClient has applied so far, while it runs
    other,      \* a second caller's call on the same client: its own locals
    config,     \* the CLI's Config: Keys and DefaultKey
    configRet,  \* the latest key-store operation and the error it returned
    stream,     \* the streaming GenerateClient.Text: the body, the reader, fullContent
    ret         \* what the caller above the client returned last

\* the state of the packages around the client
outside == <<config, configRet, stream, ret>>

\* what a call on the client leaves alone
aux == <<applied, other, outside>>

\* the variables of the first caller's call, and the client
callerVars == <<client, call, pc, ctxState, attempt, delay, err, target, lastResp,
                sent, outcomes, waits, applied, outside>>

vars == <<client, call, pc, ctxState, attempt, delay, err, target, lastResp,
          sent, outcomes, waits, aux>>

(***************************************************************************)
(* 64-bit integers                                                         *)
(***************************************************************************)
LimbBase == 2^8
Limbs64 == 64 \div 8
\* limbs used while parsing a decimal string, wide enough to see a range error
LimbsParse == Limbs64 + 2

RECURSIVE ToLimbs(_, _)
ToLimbs(n, k) == IF k = 0 THEN <<>> ELSE <<n % LimbBase>> \o ToLimbs(n \div LimbBase, k - 1)

I64(n) == ToLimbs(n, Limbs64)

RECURSIVE ColSum(_, _, _, _)
ColSum(a, b, k, i) ==
    IF i > k THEN 0
    ELSE (IF i <= Len(a) /\ k + 1 - i <= Len(b) THEN a[i] * b[k + 1 - i] ELSE 0)
         + ColSum(a, b, k, i + 1)

RECURSIVE MulCarry(_, _, _, _, _)
MulCarry(a, b, k, n, carry) ==
    IF k > n THEN <<>>
    ELSE LET s == ColSum(a, b, k, 1) + carry
         IN  <<s % LimbBase>> \o MulCarry(a, b, k + 1, n, s \div LimbBase)

\* a * b truncated to Len(a) limbs: Go's wrapping multiplication
MulWrap(a, b) == MulCarry(a, b, 1, Len(a), 0)

RECURSIVE AddCarry(_, _, _, _)
AddCarry(a, b, k, carry) ==
    IF k > Len(a) THEN <<>>
    ELSE LET s == a[k] + (IF k <= Len(b) THEN b[k] ELSE 0) + carry
         IN  <<s % LimbBase>> \o AddCarry(a, b, k + 1, s \div LimbBase)

AddWrap(a, b) == AddCarry(a, b, 1, 0)

NegWrap(a) == AddWrap([i \in 1..Len(a) |-> LimbBase - 1 - a[i]], ToLimbs(1, Len(a)))

IsNeg(a) == a[Len(a)] >= LimbBase \div 2

RECURSIVE LtUnsignedFrom(_, _, _)
LtUnsignedFrom(a, b, k) ==
    IF k = 0 THEN FALSE
    ELSE IF a[k] # b[k] THEN a[k] < b[k]
    ELSE LtUnsignedFrom(a, b, k - 1)

\* signed comparison of two values of the same width
Lt(a, b) ==
    IF IsNeg(a) # IsNeg(b) THEN IsNeg(a) ELSE LtUnsignedFrom(a, b, Len(a))

Gt(a, b) == Lt(b, a)

IsZero(a) == \A i \in 1..Len(a) : a[i] = 0

IsPos(a) == ~IsNeg(a) /\ ~IsZero(a)

(***************************************************************************)
(* strconv.Atoi / strconv.ParseInt(s, 10, 64)                              *)
(***************************************************************************)
Digits == <<"0", "1", "2", "3", "4", "5", "6", "7", "8", "9">>

IsDigit(ch) == \E d \in 1..10 : Digits[d] = ch

DigitVal(ch) == (CHOOSE d \in 1..10 : Digits[d] = ch) - 1

\* n = n*10 + d, one digit at a time
RECURSIVE ParseMag(_, _, _)
ParseMag(s, i, acc) ==
    IF i > Len(s) THEN acc
    ELSE CHOOSE r \in {ParseMag(s, i + 1, v) :
                         v \in {AddWrap(MulWrap(acc, ToLimbs(10, LimbsParse)),
                                        ToLimbs(DigitVal(s[i]), LimbsParse))}} : TRUE

\* 2^63 as an unsigned LimbsParse-limb value
Pow63 == [i \in 1..LimbsParse |-> IF i = Limbs64 THEN LimbBase \div 2 ELSE 0]

\* [ok, val]: val is the 64-bit value; a syntax or range error gives ok = FALSE
Atoi(s) ==
    LET neg  == Len(s) > 0 /\ s[1] = "-"
        sign == Len(s) > 0 /\ s[1] \in {"-", "+"}
        body == IF sign THEN SubSeq(s, 2, Len(s)) ELSE s
    IN  IF Len(body) = 0 \/ \E i \in 1..Len(body) : ~IsDigit(body[i])
        THEN [ok |-> FALSE, val |-> I64(0)]
        ELSE LET mag == ParseMag(body, 1, ToLimbs(0, LimbsParse))
                 inRange == IF neg THEN ~LtUnsignedFrom(Pow63, mag, LimbsParse)
                                   ELSE LtUnsignedFrom(mag, Pow63, LimbsParse)
                 low == SubSeq(mag, 1, Limbs64)
             IN  IF ~inRange THEN [ok |-> FALSE, val |-> I64(0)]
                 ELSE [ok |-> TRUE, val |-> IF neg THEN NegWrap(low) ELSE low]

(***************************************************************************)
(* Durations (time.Duration: int64 nanoseconds)                            *)
(***************************************************************************)
Second == I64(1000000000)

Seconds(n) == MulWrap(I64(n), Second)

(***************************************************************************)
(* Client construction                                                     *)
(***************************************************************************)
APIVersion == "v1"
DefaultBaseURL == <<"https://api.toneclone.ai">>
\* DefaultTimeout = 30 * time.Second, in seconds
DefaultTimeout == 30
DefaultUserAgent == <<"toneclone-cli/", APIVersion>>

\* the longest option list NewClient is given
MaxOptions == 2

APIKey == "test_key"
BaseURLInputs == { <<"https://test.api.com", "/">>,
                   <<"https://test.api.com", "/", "v2">> }
TimeoutInputs == {5}
UserAgentInputs == { <<"my-agent">> }
\* caller-built http.Client values: the zero Timeout means no timeout
HTTPClientInputs == { [id |-> "custom", Timeout |-> 0],
                      [id |-> "custom", Timeout |-> 10] }

\* strings.TrimSuffix(s, "/")
TrimSuffix(s) ==
    IF Len(s) > 0 /\ s[Len(s)] = "/" THEN SubSeq(s, 1, Len(s) - 1) ELSE s

WithBaseURL(u) == [op |-> "WithBaseURL", arg |-> u]
WithTimeout(t) == [op |-> "WithTimeout", arg |-> t]
WithUserAgent(a) == [op |-> "WithUserAgent", arg |-> a]
WithHTTPClient(h) == [op |-> "WithHTTPClient", arg |-> h]

Options ==
    {WithBaseURL(u) : u \in BaseURLInputs} \cup {WithTimeout(t) : t \in TimeoutInputs}
    \cup {WithUserAgent(a) : a \in UserAgentInputs}
    \cup {WithHTTPClient(h) : h \in HTTPClientInputs}

ApplyOption(c, o) ==
    CASE o.op = "WithBaseURL"    -> [c EXCEPT !.baseURL = TrimSuffix(o.arg)]
      [] o.op = "WithTimeout"    -> [c EXCEPT !.timeout = o.arg, !.httpClient.Timeout = o.arg]
      [] o.op = "WithUserAgent"  -> [c EXCEPT !.userAgent = o.arg]
      [] o.op = "WithHTTPClient" -> [c EXCEPT !.httpClient = o.arg]

RECURSIVE ApplyOptions(_, _, _)
ApplyOptions(c, options, i) ==
    IF i > Len(options) THEN c
    ELSE ApplyOptions(ApplyOption(c, options[i]), options, i + 1)

NewClient(apiKey, options) ==
    ApplyOptions([baseURL    |-> DefaultBaseURL,
                  apiKey     |-> apiKey,
                  userAgent  |-> DefaultUserAgent,
                  timeout    |-> DefaultTimeout,
                  httpClient |-> [id |-> "own", Timeout |-> DefaultTimeout]],
                 options, 1)

OptionLists == UNION {[1..n -> Options] : n \in 0..MaxOptions}

\* the client before the first option: the literal of NewClient
DefaultClient(apiKey) == NewClient(apiKey, <<>>)

(***************************************************************************)
(* The key store of internal/config: Config.Keys and Config.DefaultKey     *)
(***************************************************************************)
ConfigDefaultTimeout == 30
ConfigDefaultBaseURL == "https://api.toneclone.ai"

\* NewConfig(): an empty Keys map, no default key
NewConfig == [Keys |-> <<>>, DefaultKey |-> ""]

\* profile names the commands pass on: never the empty string for AddKey
ProfileNames == {"test1", "test2", "prod"}

\* the names in c.Keys
KeyNames(c) == DOMAIN c.Keys

\* Config.AddKey(name, key, baseURL)
AddKey(c, name, key, baseURL) ==
    [Keys |-> [n \in KeyNames(c) \cup {name} |->
                  IF n = name
                  THEN [Key     |-> key,
                        BaseURL |-> IF baseURL = "" THEN ConfigDefaultBaseURL ELSE baseURL,
                        Timeout |-> ConfigDefaultTimeout]
                  ELSE c.Keys[n]],
     DefaultKey |-> IF c.DefaultKey = "" THEN name ELSE c.DefaultKey]

\* a RemoveKey that clears the default and picks no new one
RemoveKeyClearsDefault(c, name) ==
    IF name \notin KeyNames(c)
    THEN {[config |-> c, err |-> TRUE]}
    ELSE {[config |-> [Keys |-> [n \in KeyNames(c) \ {name} |-> c.Keys[n]],
                       DefaultKey |-> IF c.DefaultKey = name THEN "" ELSE c.DefaultKey],
           err |-> FALSE]}

\* Config.RemoveKey(name): every [config, err] it can end in; the new default
\* is the first key of a range over the map, which may be any key
RemoveKey(c, name) ==
    IF name \notin KeyNames(c)
    THEN {[config |-> c, err |-> TRUE]}
    ELSE LET keys == [n \in KeyNames(c) \ {name} |-> c.Keys[n]]
         IN  IF c.DefaultKey # name
             THEN {[config |-> [Keys |-> keys, DefaultKey |-> c.DefaultKey], err |-> FALSE]}
             ELSE IF DOMAIN keys = {}
             THEN {[config |-> [Keys |-> keys, DefaultKey |-> ""], err |-> FALSE]}
             ELSE {[config |-> [Keys |-> keys, DefaultKey |-> k], err |-> FALSE] :
                      k \in DOMAIN keys}

\* a SetDefaultKey without the lookup
SetDefaultKeyUnchecked(c, name) ==
    [config |-> [c EXCEPT !.DefaultKey = name], err |-> FALSE]

\* Config.SetDefaultKey(name)
SetDefaultKey(c, name) ==
    IF name \notin KeyNames(c)
    THEN [config |-> c, err |-> TRUE]
    ELSE [config |-> [c EXCEPT !.DefaultKey = name], err |-> FALSE]

(***************************************************************************)
(* Transport: makeRequest                                                  *)
(***************************************************************************)
UserPath == <<"/", "user">>
PersonaPath == <<"/", "personas", "/", "p1">>
Paths == {UserPath, PersonaPath}
PingPath == <<"/", "ping">>

NilBody == [kind |-> "nil"]
MapBody == [kind |-> "map", name |-> "test"]
ChanBody == [kind |-> "chan"]
RequestBodies == {NilBody, MapBody, ChanBody}

\* json.Marshal of a request body
Marshal(b) ==
    CASE b.kind = "map"  -> [ok |-> TRUE,  bytes |-> <<"{", "\"name\"", ":", "\"" \o b.name \o "\"", "}">>]
      [] b.kind = "chan" -> [ok |-> FALSE, bytes |-> <<>>]

RECURSIVE Segments(_, _)
Segments(s, i) ==
    IF i > Len(s) THEN <<>>
    ELSE (IF s[i] = "/" THEN <<>> ELSE <<s[i]>>) \o Segments(s, i + 1)

RECURSIVE Slashed(_, _)
Slashed(segs, i) ==
    IF i > Len(segs) THEN <<>> ELSE <<"/", segs[i]>> \o Slashed(segs, i + 1)

\* url.JoinPath(base, elem): the base's host, then the cleaned join of the
\* base's path and elem, keeping elem's trailing slash
JoinPath(base, elem) ==
    LET segs == Segments(base, 2) \o Segments(elem, 1)
        tail == IF Len(elem) > 0 /\ elem[Len(elem)] = "/" /\ Len(segs) > 0
                THEN <<"/">> ELSE <<>>
    IN  <<base[1]>> \o Slashed(segs, 1) \o tail

\* headers whose Content-Type is set on the first attempt of a call only
RequestHeadersFirstAttemptOnly(c) ==
    [Authorization |-> <<"Bearer ", c.apiKey>>,
     ContentType   |-> IF sent = <<>> THEN "application/json" ELSE "",
     Accept        |-> "application/json",
     UserAgent     |-> c.userAgent,
     TCAPIVersion  |-> APIVersion]

RequestHeaders(c) ==
    [Authorization |-> <<"Bearer ", c.apiKey>>,
     ContentType   |-> "application/json",
     Accept        |-> "application/json",
     UserAgent     |-> c.userAgent,
     TCAPIVersion  |-> APIVersion]

\* a request whose URL is joined onto the URL of the previous attempt
MakeRequestAccumulating(c, method, path, body) ==
    LET m == IF body = NilBody THEN [ok |-> TRUE, bytes |-> <<>>] ELSE Marshal(body)
        base == IF sent = <<>> THEN c.baseURL ELSE sent[Len(sent)].url
    IN  IF ~m.ok
        THEN [ok |-> FALSE, err |-> [kind |-> "marshal"]]
        ELSE [ok |-> TRUE,
              req |-> [method  |-> method,
                       url     |-> JoinPath(base, path),
                       hasBody |-> body # NilBody,
                       body    |-> m.bytes,
                       header  |-> RequestHeaders(c)]]

\* the request makeRequest hands to httpClient.Do, or the marshalling error
MakeRequest(c, method, path, body) ==
    LET m == IF body = NilBody THEN [ok |-> TRUE, bytes |-> <<>>] ELSE Marshal(body)
    IN  IF ~m.ok
        THEN [ok |-> FALSE, err |-> [kind |-> "marshal"]]
        ELSE [ok |-> TRUE,
              req |-> [method  |-> method,
                       url     |-> JoinPath(c.baseURL, path),
                       hasBody |-> body # NilBody,
                       body    |-> m.bytes,
                       header  |-> RequestHeaders(c)]]

(***************************************************************************)
(* Responses the server may send                                           *)
(***************************************************************************)
Absent == <<>>
NotANumber == <<"x">>
RetryAfterOverflowNeg == <<"9", "2", "2", "3", "3", "7", "2", "0", "3", "7">>
RetryAfterOverflowPos == <<"1", "8", "4", "4", "6", "7", "4", "4", "0", "7", "4">>
OutOfRange == <<"9", "9", "9", "9", "9", "9", "9", "9", "9", "9",
                "9", "9", "9", "9", "9", "9", "9", "9", "9", "9">>
UnixTs == <<"1", "7", "0", "0", "0", "0", "0", "0", "0", "0">>

Hdr(remaining, reset, retryAfter) ==
    [remaining |-> remaining, reset |-> reset, retryAfter |-> retryAfter]

NoHeaders == Hdr(Absent, Absent, Absent)
TypicalHeaders == Hdr(<<"5">>, UnixTs, <<"2">>)

HeaderProfiles ==
    { NoHeaders, TypicalHeaders,
      Hdr(<<"0">>, Absent, <<"6", "1">>),
      Hdr(NotANumber, NotANumber, <<"1">>),
      Hdr(<<"5">>, UnixTs, NotANumber),
      Hdr(Absent, Absent, <<"0">>),
      Hdr(Absent, Absent, <<"-", "1">>),
      Hdr(Absent, UnixTs, RetryAfterOverflowNeg),
      Hdr(<<"5">>, Absent, RetryAfterOverflowPos),
      Hdr(Absent, Absent, OutOfRange) }

HeaderValues ==
    UNION {{h.remaining, h.reset, h.retryAfter} : h \in HeaderProfiles} \ {Absent}

EmptyBody == [kind |-> "empty"]
TextBody == [kind |-> "text", raw |-> "Too Many Requests"]
RateLimitBody ==
    [kind |-> "object", error |-> "rate_limit_exceeded", message |-> "Slow down", code |-> "E429"]
NotFoundBody ==
    [kind |-> "object", error |-> "not_found", message |-> "", code |-> ""]
ResponseBodies == {EmptyBody, TextBody, RateLimitBody, NotFoundBody}

StatusTooManyRequests == 429
OtherStatuses == {200, 404, 500}

\* statuses below 400 that come with no body
EmptySuccessStatuses == {204, 304}

Resp(st, b, h) == [status |-> st, body |-> b, hdr |-> h]

\* every header profile on a decodable 429, every body on every status, and
\* the rate-limit headers on a status that is not 429
Responses ==
    {Resp(StatusTooManyRequests, RateLimitBody, h) : h \in HeaderProfiles}
    \cup {Resp(StatusTooManyRequests, b, h) :
            b \in ResponseBodies, h \in {NoHeaders, TypicalHeaders}}
    \cup {Resp(st, b, NoHeaders) : st \in OtherStatuses, b \in ResponseBodies}
    \cup {Resp(404, NotFoundBody, TypicalHeaders)}
    \cup {Resp(st, EmptyBody, NoHeaders) : st \in EmptySuccessStatuses}

NoResponse == [status |-> 0]

(***************************************************************************)
(* Response decoder: doRequest                                             *)
(***************************************************************************)
NoError == [kind |-> "nil"]

\* json.Unmarshal(respBody, &errorResp)
UnmarshalErrorResponse(b) ==
    IF b.kind = "object"
    THEN [ok |-> TRUE, ErrorMsg |-> b.error, Message |-> b.message, Code |-> b.code]
    ELSE [ok |-> FALSE, ErrorMsg |-> "", Message |-> "", Code |-> ""]

\* each header value is parsed once
AtoiTable == [h \in HeaderValues |-> Atoi(h)]

ZeroTime == [isZero |-> TRUE, unix |-> I64(0)]

\* strconv.Atoi(header) guarded by header != "" and err == nil
IntHeader(h) ==
    IF h # Absent /\ AtoiTable[h].ok THEN AtoiTable[h].val ELSE I64(0)

\* time.Unix(timestamp, 0) under the same guards
TimeHeader(h) ==
    IF h # Absent /\ AtoiTable[h].ok
    THEN [isZero |-> FALSE, unix |-> AtoiTable[h].val] ELSE ZeroTime

\* the headers parsed in sequence, the first malformed one ending the parsing
NewRateLimitErrorStopsAtBadHeader(e, hdr) ==
    LET okRemaining == hdr.remaining = Absent \/ AtoiTable[hdr.remaining].ok
        okReset     == okRemaining /\ (hdr.reset = Absent \/ AtoiTable[hdr.reset].ok)
    IN  [kind              |-> "RateLimitError",
         ErrorMsg          |-> e.ErrorMsg,
         Message           |-> e.Message,
         Code              |-> e.Code,
         RemainingRequests |-> IntHeader(hdr.remaining),
         ResetTime         |-> IF okRemaining THEN TimeHeader(hdr.reset) ELSE ZeroTime,
         RetryAfterSeconds |-> IF okReset THEN IntHeader(hdr.retryAfter) ELSE I64(0)]

NewRateLimitError(e, hdr) ==
    [kind              |-> "RateLimitError",
     ErrorMsg          |-> e.ErrorMsg,
     Message           |-> e.Message,
     Code              |-> e.Code,
     RemainingRequests |-> IntHeader(hdr.remaining),
     ResetTime         |-> TimeHeader(hdr.reset),
     RetryAfterSeconds |-> IntHeader(hdr.retryAfter)]

\* the branch for resp.StatusCode >= 400
DecodeErrorStatus(resp) ==
    LET e == UnmarshalErrorResponse(resp.body)
    IN  IF ~e.ok
        THEN [kind |-> "status_error", status |-> resp.status, body |-> resp.body]
        ELSE IF resp.status = StatusTooManyRequests
        THEN NewRateLimitError(e, resp.hdr)
        ELSE [kind |-> "ErrorResponse", ErrorMsg |-> e.ErrorMsg,
              Message |-> e.Message, Code |-> e.Code]

TargetUnset == [kind |-> "unset"]

\* a decoder that unmarshals the body into the target before it looks at the
\* status
DecodeResponseWritesFirst(resp, hasTarget, tgt) ==
    LET written == IF hasTarget /\ resp.body.kind = "object"
                   THEN [kind |-> "decoded", value |-> resp.body]
                   ELSE tgt
    IN  IF resp.status >= 400
        THEN [err |-> DecodeErrorStatus(resp), target |-> written]
        ELSE IF hasTarget /\ resp.body # EmptyBody
        THEN IF resp.body.kind = "object"
             THEN [err |-> NoError, target |-> written]
             ELSE [err |-> [kind |-> "parse_response"], target |-> tgt]
        ELSE [err |-> NoError, target |-> tgt]

\* the decoder without the len(respBody) == 0 guard: the empty body goes to
\* json.Unmarshal, which fails on it
DecodeResponseParsesEmpty(resp, hasTarget, tgt) ==
    IF resp.status >= 400
    THEN [err |-> DecodeErrorStatus(resp), target |-> tgt]
    ELSE IF hasTarget
    THEN IF resp.body.kind = "object"
         THEN [err |-> NoError, target |-> [kind |-> "decoded", value |-> resp.body]]
         ELSE [err |-> [kind |-> "parse_response"], target |-> tgt]
    ELSE [err |-> NoError, target |-> tgt]

\* the rest of doRequest once the body is read: [err, target]
DecodeResponse(resp, hasTarget, tgt) ==
    IF resp.status >= 400
    THEN [err |-> DecodeErrorStatus(resp), target |-> tgt]
    ELSE IF hasTarget /\ resp.body # EmptyBody
    THEN IF resp.body.kind = "object"
         THEN [err |-> NoError, target |-> [kind |-> "decoded", value |-> resp.body]]
         ELSE [err |-> [kind |-> "parse_response"], target |-> tgt]
    ELSE [err |-> NoError, target |-> tgt]

(***************************************************************************)
(* Error texts: the Error() methods and the fmt.Errorf of doRequest        *)
(***************************************************************************)
\* a by 10, by long division from the most significant limb: [q, r]
RECURSIVE DivMod10(_, _, _)
DivMod10(a, i, rem) ==
    IF i = 0 THEN [q |-> <<>>, r |-> rem]
    ELSE LET cur  == rem * LimbBase + a[i]
             rest == DivMod10(a, i - 1, cur % 10)
         IN  [q |-> Append(rest.q, cur \div 10), r |-> rest.r]

\* the decimal digits of an unsigned value, most significant first
RECURSIVE FormatUnsigned(_)
FormatUnsigned(a) ==
    IF IsZero(a) THEN ""
    ELSE LET d == DivMod10(a, Len(a), 0)
         IN  FormatUnsigned(d.q) \o Digits[d.r + 1]

\* %d of an int
FormatInt(a) ==
    IF IsZero(a) THEN "0"
    ELSE IF IsNeg(a) THEN "-" \o FormatUnsigned(NegWrap(a))
    ELSE FormatUnsigned(a)

\* string(respBody)
BodyText(b) ==
    CASE b.kind = "empty" -> ""
      [] b.kind = "text"  -> b.raw
      [] OTHER -> "{\"error\":\"" \o b.error \o "\",\"message\":\"" \o b.message
                  \o "\",\"code\":\"" \o b.code \o "\"}"

\* the status error without the body
StatusErrorTextWithoutBody(status, b) ==
    "API request failed with status " \o ToString(status)

\* fmt.Errorf("API request failed with status %d: %s", status, string(respBody))
StatusErrorText(status, b) ==
    "API request failed with status " \o ToString(status) \o ": " \o BodyText(b)

\* an ErrorResponse that renders its error alone
ErrorResponseTextWithoutMessage(e) == e.ErrorMsg

\* (ErrorResponse).Error()
ErrorResponseText(e) ==
    IF e.Message # "" THEN e.ErrorMsg \o ": " \o e.Message ELSE e.ErrorMsg

\* (*RateLimitError).Error()
RateLimitErrorText(e) ==
    IF IsPos(e.RetryAfterSeconds)
    THEN "Rate limit exceeded. Try again in " \o FormatInt(e.RetryAfterSeconds) \o " seconds"
    ELSE "Rate limit exceeded: " \o e.ErrorMsg

\* err.Error() of the errors doRequest makes out of a response
ErrorText(e) ==
    CASE e.kind = "RateLimitError" -> RateLimitErrorText(e)
      [] e.kind = "ErrorResponse"  -> ErrorResponseText(e)
      [] e.kind = "status_error"   -> StatusErrorText(e.status, e.body)

(***************************************************************************)
(* Retry engine: doRequestWithRetry                                        *)
(***************************************************************************)
\* a loop with one attempt more
MaxRetriesPlusOne == 3 + 1

maxRetries == 3
baseDelay == Second
MaxDelay == Seconds(60)

IsRateLimitError(e) == e.kind = "RateLimitError"

\* the last attempt taken to be the one after the bound
LastAttemptOffByOne(n) == n = maxRetries

\* a loop that never takes an attempt for the last one
LastAttemptNever(n) == FALSE

\* attempt == maxRetries-1
LastAttempt(n) == n = maxRetries - 1

\* the delay before the clamp
BackoffDelay(e, n) ==
    IF IsPos(e.RetryAfterSeconds)
    THEN MulWrap(e.RetryAfterSeconds, Second)
    ELSE MulWrap(baseDelay, I64(2^n))

\* the clamp left out
NoClamp(d) == d

ClampDelay(d) == IF Gt(d, MaxDelay) THEN MaxDelay ELSE d

RetryDelay(e, n) == ClampDelay(BackoffDelay(e, n))

\* ctx.Err()
CtxErr(state) == [kind |-> "ctx", cause |-> state]

\* a loop that also retries server errors (any decoded error body)
EngineDecisionRetryServerErrors(e, n) ==
    IF e.kind \in {"RateLimitError", "ErrorResponse"}
    THEN IF LastAttempt(n)
         THEN [do |-> "return", err |-> e]
         ELSE [do |-> "wait", err |-> e,
               delay |-> IF IsRateLimitError(e) THEN RetryDelay(e, n) ELSE Seconds(2^n)]
    ELSE [do |-> "return", err |-> e]

\* a loop that falls out of the for statement after the last attempt
EngineDecisionFallsThrough(e, n) ==
    IF IsRateLimitError(e)
    THEN IF LastAttempt(n)
         THEN [do |-> "return", err |-> [kind |-> "max_retries"]]
         ELSE [do |-> "wait", err |-> e, delay |-> RetryDelay(e, n)]
    ELSE [do |-> "return", err |-> e]

\* what one loop iteration does with the error doRequest returned
EngineDecision(e, n) ==
    IF IsRateLimitError(e)
    THEN IF LastAttempt(n)
         THEN [do |-> "return", err |-> e]
         ELSE [do |-> "wait", err |-> e, delay |-> RetryDelay(e, n)]
    ELSE [do |-> "return", err |-> e]

\* the select returning the rate-limit error when the context is done
OnCtxDoneReturnsRateLimit(state, rateLimitErr) == rateLimitErr

\* case <-ctx.Done(): return ctx.Err()
OnCtxDone(state, rateLimitErr) == CtxErr(state)

\* the cases of the select that are ready when it is entered: a timer with a
\* delay <= 0 fires at once, and Go picks among ready cases at random
SelectOnEntry(state, d) ==
    IF state = "active" THEN {"block"}
    ELSE IF IsPos(d) THEN {"ctx"} ELSE {"ctx", "block"}

NoCall == [verb |-> "none"]

VerbCall(verb, method, path, body, hasTarget, ctxDeadline) ==
    [verb |-> verb, method |-> method, path |-> path, body |-> body,
     hasTarget |-> hasTarget, ctxDeadline |-> ctxDeadline]

\* Get, Post, Put and Delete with the arguments each one passes on
RetryingCalls ==
    {VerbCall("Get", "GET", p, NilBody, t, d) :
        p \in Paths, t \in BOOLEAN, d \in BOOLEAN}
    \cup {VerbCall("Post", "POST", PersonaPath, b, TRUE, d) :
        b \in RequestBodies, d \in BOOLEAN}
    \cup {VerbCall("Put", "PUT", PersonaPath, b, t, TRUE) :
        b \in {NilBody, MapBody}, t \in BOOLEAN}
    \cup {VerbCall("Delete", "DELETE", p, NilBody, FALSE, FALSE) : p \in Paths}

RetryingVerbs == {"Get", "Post", "Put", "Delete"}

\* Patch hands its arguments to doRequest
PatchCalls ==
    {VerbCall("Patch", "PATCH", PersonaPath, b, TRUE, d) :
        b \in {MapBody, ChanBody}, d \in BOOLEAN}

\* Health: makeRequest(ctx, "GET", "/ping", nil)
HealthCalls ==
    {VerbCall("Health", "GET", PingPath, NilBody, FALSE, d) : d \in BOOLEAN}

\* every call goes through the retry loop
AfterAttemptAlwaysRetries(cl, e, n) == EngineDecision(e, n)

\* what follows an attempt that ended in e: the retry loop decides for Get,
\* Post, Put and Delete; Patch and Health return what they got
AfterAttempt(cl, e, n) ==
    IF cl.verb \in RetryingVerbs
    THEN EngineDecision(e, n)
    ELSE [do |-> "return", err |-> e]

\* the second caller between two calls
(***************************************************************************)
(* The streaming GenerateClient.Text: a POST to /query whose body is read  *)
(* line by line                                                            *)
(***************************************************************************)
MaxLines == 3

\* the pieces of a streamed body: a space, '\n', a word, a JSON value
Ws == [t |-> "ws"]
Nl == [t |-> "nl"]
Word(s) == [t |-> "word", s |-> s]
ChunkJson(content, done) ==
    [t |-> "json", typed |-> TRUE, content |-> content, done |-> done]
\* {"content": 5}: an object whose content is not a string
MistypedJson == [t |-> "json", typed |-> FALSE, content |-> "", done |-> FALSE]

\* lines a server sends, without their '\n'
StreamLines ==
    { <<>>,
      <<Word("event:"), Ws, Word("message")>>,
      <<ChunkJson("raw", FALSE)>>,
      <<Word("data:"), Ws, ChunkJson("Hel", FALSE)>>,
      <<Ws, Word("data:"), ChunkJson("lo", FALSE), Ws>>,
      <<Word("data:"), Ws, ChunkJson("Hello!", TRUE)>>,
      <<Word("data:"), Ws, Word("{bad")>>,
      <<Word("data:"), Ws, MistypedJson>> }

\* the bodies: up to MaxLines lines, each ended by '\n', the last one with or
\* without it
StreamBodies ==
    LET RECURSIVE Flatten(_, _)
        Flatten(lines, i) ==
            IF i > Len(lines) THEN <<>>
            ELSE lines[i] \o <<Nl>> \o Flatten(lines, i + 1)
        seqs == UNION {[1..n -> StreamLines] : n \in 0..MaxLines}
        full == {Flatten(ls, 1) : ls \in seqs}
    IN  full \cup {SubSeq(b, 1, Len(b) - 1) : b \in full \ {<<>>}}

\* reader.ReadString('\n') from position pos: the bytes up to and including
\* the delimiter, or what is left together with io.EOF
ReadString(body, pos) ==
    LET at == {i \in pos..Len(body) : body[i] = Nl}
    IN  IF at = {}
        THEN [line |-> SubSeq(body, pos, Len(body)), next |-> Len(body) + 1, err |-> "EOF"]
        ELSE LET i == CHOOSE j \in at : \A k \in at : j <= k
             IN  [line |-> SubSeq(body, pos, i), next |-> i + 1, err |-> "nil"]

\* strings.TrimSpace
RECURSIVE TrimSpace(_)
TrimSpace(s) ==
    IF s = <<>> THEN s
    ELSE IF s[1] \in {Ws, Nl} THEN TrimSpace(Tail(s))
    ELSE IF s[Len(s)] \in {Ws, Nl} THEN TrimSpace(SubSeq(s, 1, Len(s) - 1))
    ELSE s

\* strings.HasPrefix(line, prefix) for a prefix that is one word
HasPrefix(line, prefix) == line # <<>> /\ line[1] = Word(prefix)

\* strings.TrimPrefix(line, prefix)
TrimPrefix(line, prefix) == IF HasPrefix(line, prefix) THEN Tail(line) ELSE line

\* json.Unmarshal([]byte(data), &chunk) into a fresh chunk
UnmarshalChunk(data) ==
    LET v == TrimSpace(data)
    IN  IF Len(v) = 1 /\ v[1].t = "json" /\ v[1].typed
        THEN [ok |-> TRUE, Content |-> v[1].content, Done |-> v[1].done]
        ELSE [ok |-> FALSE, Content |-> "", Done |-> FALSE]

\* one iteration of the for loop of Text over the reader
TextIteration(st) ==
    LET r    == ReadString(st.body, st.pos)
        line == TrimSpace(r.line)
        c    == UnmarshalChunk(TrimPrefix(line, "data:"))
    IN  IF r.err = "EOF" THEN [st EXCEPT !.pc = "returned"]
        ELSE IF line = <<>> \/ HasPrefix(line, "event:") \/ ~HasPrefix(line, "data:") \/ ~c.ok
        THEN [st EXCEPT !.pos = r.next]
        ELSE IF c.Done
        THEN [st EXCEPT !.pos = r.next, !.fullContent = c.Content, !.pc = "returned"]
        ELSE [st EXCEPT !.pos = r.next, !.fullContent = @ \o c.Content]

OtherIdle ==
    [pc |-> "idle", attempt |-> 0, delay |-> I64(0), err |-> NoError, roundTrips |-> 0]

Init ==
    /\ client \in {NewClient(APIKey, o) : o \in OptionLists}
    /\ call = NoCall
    /\ pc = "idle"
    /\ ctxState = "active"
    /\ attempt = 0
    /\ delay = I64(0)
    /\ err = NoError
    /\ target = TargetUnset
    /\ lastResp = NoResponse
    /\ sent = <<>>
    /\ outcomes = <<>>
    /\ waits = 0
    /\ applied = <<>>
    /\ other = OtherIdle
    /\ config = NewConfig
    /\ configRet = [op |-> "none", name |-> "", err |-> FALSE]
    /\ stream = [pc |-> "idle"]
    /\ ret = [by |-> "none"]

\* one call of doRequest up to httpClient.Do: the request is built and handed
\* to the transport, or marshalling fails and the loop returns the error
Issue(cl, n, prevSent, prevOutcomes) ==
    LET r == MakeRequest(client, cl.method, cl.path, cl.body)
    IN  /\ attempt' = n
        /\ lastResp' = NoResponse
        /\ IF r.ok
           THEN /\ pc' = "inflight"
                /\ sent' = Append(prevSent, r.req)
                /\ err' = NoError
                /\ outcomes' = prevOutcomes
           ELSE /\ pc' = "done"
                /\ sent' = prevSent
                /\ err' = AfterAttempt(cl, r.err, n).err
                /\ outcomes' = Append(prevOutcomes, r.err.kind)

\* a verb is called: the loop starts and issues the first request
StartCall ==
    /\ pc = "idle"
    /\ \E cl \in RetryingCalls :
        /\ call' = cl
        /\ Issue(cl, 0, <<>>, <<>>)
    /\ ctxState' = "active"
    /\ delay' = I64(0)
    /\ target' = TargetUnset
    /\ waits' = 0
    /\ UNCHANGED <<aux, client>>

\* Patch is called: one doRequest
StartPatch ==
    /\ pc = "idle"
    /\ \E cl \in PatchCalls :
        /\ call' = cl
        /\ Issue(cl, 0, <<>>, <<>>)
    /\ ctxState' = "active"
    /\ delay' = I64(0)
    /\ target' = TargetUnset
    /\ waits' = 0
    /\ UNCHANGED <<aux, client>>

\* Health is called: one makeRequest
StartHealth ==
    /\ pc = "idle"
    /\ \E cl \in HealthCalls :
        /\ call' = cl
        /\ Issue(cl, 0, <<>>, <<>>)
    /\ ctxState' = "active"
    /\ delay' = I64(0)
    /\ target' = TargetUnset
    /\ waits' = 0
    /\ UNCHANGED <<aux, client>>

\* doRequest returned e (with the target as tgt): the rest of the iteration
EndAttempt(e, tgt, resp) ==
    LET d == AfterAttempt(call, e, attempt)
    IN  /\ outcomes' = Append(outcomes, e.kind)
        /\ lastResp' = resp
        /\ target' = tgt
        /\ IF d.do = "return"
           THEN /\ pc' = "done"
                /\ err' = d.err
                /\ UNCHANGED <<delay, waits>>
           ELSE \E ready \in SelectOnEntry(ctxState, d.delay) :
                /\ delay' = d.delay
                /\ IF ready = "ctx"
                   THEN /\ pc' = "done"
                        /\ err' = OnCtxDone(ctxState, e)
                        /\ waits' = waits
                   ELSE /\ pc' = "wait"
                        /\ err' = e
                        /\ waits' = waits + 1
        /\ UNCHANGED <<aux, client, call, ctxState, attempt, sent>>

\* the server answers and the body is read
Respond ==
    /\ pc = "inflight"
    /\ call.verb # "Health"
    /\ \E resp \in Responses :
        LET r == DecodeResponse(resp, call.hasTarget, target)
        IN  EndAttempt(r.err, r.target, resp)

\* a health check that accepts every status below 400
HealthResultBelow400(status) ==
    IF status >= 200 /\ status < 400
    THEN NoError
    ELSE [kind |-> "health_failed", status |-> status]

\* Health's verdict on the status: nil for 2xx, else "health check failed
\* with status %d"
HealthResult(status) ==
    IF status >= 200 /\ status < 300
    THEN NoError
    ELSE [kind |-> "health_failed", status |-> status]

\* the server answers a health check: the body is closed unread
HealthRespond ==
    /\ pc = "inflight"
    /\ call.verb = "Health"
    /\ \E resp \in Responses :
        /\ lastResp' = resp
        /\ err' = HealthResult(resp.status)
        /\ outcomes' = Append(outcomes, HealthResult(resp.status).kind)
    /\ pc' = "done"
    /\ UNCHANGED <<aux, client, call, ctxState, attempt, delay, target, sent, waits>>

\* the error formatted with %v: the cause is no longer in the chain
RequestFailedOpaque(cause) == [kind |-> "request_failed", cause |-> "opaque"]

\* fmt.Errorf("request failed: %w", err)
RequestFailed(cause) == [kind |-> "request_failed", cause |-> cause]

\* httpClient.Do fails on the network
TransportFail ==
    /\ pc = "inflight"
    /\ EndAttempt(RequestFailed("network"), target, NoResponse)

\* http.Client.Timeout: zero means no timeout
TimeoutArmed(c) == c.httpClient.Timeout > 0

\* the http.Client's own timeout ends the round trip
ClientTimeout ==
    /\ pc = "inflight"
    /\ TimeoutArmed(client)
    /\ EndAttempt(RequestFailed("client_timeout"), target, NoResponse)

\* the caller cancels the context during the round trip
CtxCancel ==
    /\ pc = "inflight"
    /\ ctxState = "active"
    /\ ctxState' = "canceled"
    /\ UNCHANGED <<aux, client, call, pc, attempt, delay, err, target, lastResp,
                   sent, outcomes, waits>>

\* the context's deadline passes during the round trip
CtxDeadline ==
    /\ pc = "inflight"
    /\ ctxState = "active"
    /\ call.ctxDeadline
    /\ ctxState' = "deadline_exceeded"
    /\ UNCHANGED <<aux, client, call, pc, attempt, delay, err, target, lastResp,
                   sent, outcomes, waits>>

\* httpClient.Do returns because the request's context is done
CtxAbort ==
    /\ pc = "inflight"
    /\ ctxState # "active"
    /\ EndAttempt(RequestFailed(ctxState), target, NoResponse)

\* io.ReadAll fails after the status line arrived
ReadBodyFail ==
    /\ pc = "inflight"
    /\ call.verb # "Health"
    /\ \E cause \in {"network"} \cup ({ctxState} \ {"active"}) :
        EndAttempt([kind |-> "read_body", cause |-> cause], target, NoResponse)

CtxEnds == {"canceled"} \cup (IF call.ctxDeadline THEN {"deadline_exceeded"} ELSE {})

\* the context is done while the select is blocked: case <-ctx.Done()
WaitCancelled ==
    /\ pc = "wait"
    /\ ctxState = "active"
    /\ \E how \in CtxEnds :
        /\ ctxState' = how
        /\ err' = OnCtxDone(how, err)
    /\ pc' = "done"
    /\ UNCHANGED <<aux, client, call, attempt, delay, target, lastResp, sent,
                   outcomes, waits>>

\* case <-time.After(delay): continue; then attempt++ and the loop condition
TimerFire ==
    /\ pc = "wait"
    /\ IF attempt + 1 < maxRetries
       THEN Issue(call, attempt + 1, sent, outcomes)
       ELSE /\ pc' = "done"
            /\ err' = [kind |-> "max_retries"]
            /\ UNCHANGED <<attempt, lastResp, sent, outcomes>>
    /\ UNCHANGED <<aux, client, call, ctxState, delay, target, waits>>

\* the caller has the result; the client is ready for the next call
Return ==
    /\ pc = "done"
    /\ pc' = "idle"
    /\ call' = NoCall
    /\ ctxState' = "active"
    /\ attempt' = 0
    /\ delay' = I64(0)
    /\ err' = NoError
    /\ target' = TargetUnset
    /\ lastResp' = NoResponse
    /\ sent' = <<>>
    /\ outcomes' = <<>>
    /\ waits' = 0
    /\ UNCHANGED <<aux, client>>

Next ==
    \/ StartCall
    \/ StartPatch
    \/ StartHealth
    \/ Respond
    \/ HealthRespond
    \/ TransportFail
    \/ ClientTimeout
    \/ CtxCancel
    \/ CtxDeadline
    \/ CtxAbort
    \/ ReadBodyFail
    \/ WaitCancelled
    \/ TimerFire
    \/ Return

Spec == Init /\ [][Next]_vars

(***************************************************************************)
(* NewClient as a process: the loop over the options                       *)
(***************************************************************************)
\* the longest option list the loop is followed through
MaxApplied == MaxOptions + 1

\* NewClient has built the literal and is about to range over the options
InitNewClient ==
    /\ client = DefaultClient(APIKey)
    /\ applied = <<>>
    /\ pc = "new"
    /\ call = NoCall
    /\ ctxState = "active"
    /\ attempt = 0
    /\ delay = I64(0)
    /\ err = NoError
    /\ target = TargetUnset
    /\ lastResp = NoResponse
    /\ sent = <<>>
    /\ outcomes = <<>>
    /\ waits = 0
    /\ other = OtherIdle
    /\ config = NewConfig
    /\ configRet = [op |-> "none", name |-> "", err |-> FALSE]
    /\ stream = [pc |-> "idle"]
    /\ ret = [by |-> "none"]

\* option(client) for the next option of the list
ApplyNextOption ==
    /\ pc = "new"
    /\ Len(applied) < MaxApplied
    /\ \E o \in Options :
        /\ client' = ApplyOption(client, o)
        /\ applied' = Append(applied, o)
    /\ UNCHANGED <<call, pc, ctxState, attempt, delay, err, target, lastResp,
                   sent, outcomes, waits, other, outside>>

\* return client
NewClientReturns ==
    /\ pc = "new"
    /\ pc' = "idle"
    /\ applied' = <<>>
    /\ UNCHANGED <<client, call, ctxState, attempt, delay, err, target, lastResp,
                   sent, outcomes, waits, other, outside>>

NextNewClient ==
    \/ ApplyNextOption
    \/ NewClientReturns

SpecNewClient == InitNewClient /\ [][NextNewClient]_vars

(***************************************************************************)
(* Two callers on one Client: a second goroutine calls Get with            *)
(* context.Background() while the first caller's call runs                 *)
(***************************************************************************)
\* what the server answers the second caller
OtherResponses ==
    {Resp(StatusTooManyRequests, RateLimitBody, NoHeaders),
     Resp(200, EmptyBody, NoHeaders)}

\* the loop counter kept in a place that all calls on the client share
LoopCounterShared(mine, theirs) == theirs

\* the first caller's loop counter after a step of the second caller:
\* attempt is a local of each invocation of doRequestWithRetry
LoopCounterOfCaller(mine, theirs) == mine

\* the second caller calls c.Get(ctx, "/user", nil): first request
OtherStart ==
    /\ other.pc = "idle"
    /\ MakeRequest(client, "GET", UserPath, NilBody).ok
    /\ other' = [other EXCEPT !.pc = "inflight", !.roundTrips = 1]
    /\ attempt' = LoopCounterOfCaller(attempt, 0)
    /\ UNCHANGED <<client, call, pc, ctxState, delay, err, target, lastResp,
                   sent, outcomes, waits, applied, outside>>

\* the second caller's round trip is answered: its own iteration decides
OtherRespond ==
    /\ other.pc = "inflight"
    /\ \E resp \in OtherResponses :
        LET e == DecodeResponse(resp, FALSE, TargetUnset).err
            d == EngineDecision(e, other.attempt)
        IN  other' = IF d.do = "return"
                     THEN [other EXCEPT !.pc = "done", !.err = d.err]
                     ELSE [other EXCEPT !.pc = "wait", !.err = e, !.delay = d.delay]
    /\ UNCHANGED callerVars

\* the second caller's timer fires: its attempt++ and its next request
OtherTimerFire ==
    /\ other.pc = "wait"
    /\ other.attempt + 1 < maxRetries
    /\ other' = [other EXCEPT !.pc = "inflight", !.attempt = @ + 1,
                              !.roundTrips = @ + 1]
    /\ attempt' = LoopCounterOfCaller(attempt, other.attempt + 1)
    /\ UNCHANGED <<client, call, pc, ctxState, delay, err, target, lastResp,
                   sent, outcomes, waits, applied, outside>>

\* the second caller has its result
OtherReturn ==
    /\ other.pc = "done"
    /\ other' = OtherIdle
    /\ UNCHANGED callerVars

InitConcurrent ==
    /\ Init
    /\ client = DefaultClient(APIKey)

NextConcurrent ==
    \/ Next
    \/ OtherStart
    \/ OtherRespond
    \/ OtherTimerFire
    \/ OtherReturn

SpecConcurrent == InitConcurrent /\ [][NextConcurrent]_vars

(***************************************************************************)
(* The other exported methods of Client, called between verb calls         *)
(***************************************************************************)
SetTimeoutInputs == {0, 10}

\* a SetTimeout that writes both places, as WithTimeout does
SetTimeoutBothPlaces(c, t) == [c EXCEPT !.timeout = t, !.httpClient.Timeout = t]

\* c.httpClient.Timeout = timeout
SetTimeoutResult(c, t) == [c EXCEPT !.httpClient.Timeout = t]

\* SetTimeout(timeout)
SetTimeout ==
    /\ pc = "idle"
    /\ \E t \in SetTimeoutInputs : client' = SetTimeoutResult(client, t)
    /\ UNCHANGED <<aux, call, pc, ctxState, attempt, delay, err, target, lastResp,
                   sent, outcomes, waits>>

\* a method that only reads the client returns v
Returns(method, v) ==
    /\ pc = "idle"
    /\ pc' = "done"
    /\ call' = VerbCall(method, "", <<>>, NilBody, FALSE, FALSE)
    /\ target' = [kind |-> "value", value |-> v]
    /\ UNCHANGED <<aux, client, ctxState, attempt, delay, err, lastResp, sent,
                   outcomes, waits>>

GetBaseURL == Returns("GetBaseURL", client.baseURL)

GetUserAgent == Returns("GetUserAgent", client.userAgent)

\* WithContext(ctx): ctx itself when it has a deadline, else ctx with the
\* timeout of the http.Client
WithContext ==
    \E hasDeadline \in BOOLEAN :
        Returns("WithContext",
                IF hasDeadline THEN [deadline |-> "of ctx"]
                ELSE [deadline |-> client.httpClient.Timeout])

\* the client of NewToneCloneClientFromConfig(baseURL, apiKey, timeout)
InitFacade ==
    /\ Init
    /\ \E u \in BaseURLInputs, t \in TimeoutInputs :
        client = NewClient(APIKey, <<WithBaseURL(u), WithTimeout(t)>>)

NextFacade ==
    \/ Next
    \/ SetTimeout
    \/ GetBaseURL
    \/ GetUserAgent
    \/ WithContext

SpecFacade == InitFacade /\ [][NextFacade]_vars

(***************************************************************************)
(* The key store driven by the auth commands                               *)
(***************************************************************************)
\* cfg.AddKey(profileName, apiKey, apiBaseURL)
CallAddKey ==
    /\ \E name \in ProfileNames, baseURL \in {"", "https://test.api.com"} :
        /\ config' = AddKey(config, name, "tc_test_abc123", baseURL)
        /\ configRet' = [op |-> "AddKey", name |-> name, err |-> FALSE]
    /\ UNCHANGED <<client, call, pc, ctxState, attempt, delay, err, target, lastResp,
                   sent, outcomes, waits, applied, other, stream, ret>>

\* cfg.RemoveKey(profileName)
CallRemoveKey ==
    /\ \E name \in ProfileNames \cup {"nonexistent"} : \E r \in RemoveKey(config, name) :
        /\ config' = r.config
        /\ configRet' = [op |-> "RemoveKey", name |-> name, err |-> r.err]
    /\ UNCHANGED <<client, call, pc, ctxState, attempt, delay, err, target, lastResp,
                   sent, outcomes, waits, applied, other, stream, ret>>

\* cfg.SetDefaultKey(profileName)
CallSetDefaultKey ==
    /\ \E name \in ProfileNames \cup {"nonexistent"} :
        /\ config' = SetDefaultKey(config, name).config
        /\ configRet' = [op |-> "SetDefaultKey", name |-> name,
                         err |-> SetDefaultKey(config, name).err]
    /\ UNCHANGED <<client, call, pc, ctxState, attempt, delay, err, target, lastResp,
                   sent, outcomes, waits, applied, other, stream, ret>>

InitConfig ==
    /\ Init
    /\ client = DefaultClient(APIKey)

NextConfig ==
    \/ CallAddKey
    \/ CallRemoveKey
    \/ CallSetDefaultKey

SpecConfig == InitConfig /\ [][NextConfig]_vars

(***************************************************************************)
(* GenerateClient.Text reading a stream                                    *)
(***************************************************************************)
\* Text is called: makeRequest, then the status test
StartText ==
    /\ stream.pc = "idle"
    /\ \E status \in {200, StatusTooManyRequests}, body \in StreamBodies, sends \in BOOLEAN :
        LET r == MakeRequest(client, "POST", <<"/", "query">>, MapBody)
        IN  IF ~(r.ok /\ sends)
            THEN /\ stream' = [pc |-> "returned"]
                 /\ ret' = [by |-> "Text", err |-> "failed to generate text", text |-> ""]
            ELSE IF status # 200
            THEN /\ stream' = [pc |-> "returned"]
                 /\ ret' = [by |-> "Text", err |-> "API request failed with status", text |-> ""]
            ELSE /\ stream' = [pc |-> "reading", req |-> r.req, body |-> body,
                               pos |-> 1, fullContent |-> ""]
                 /\ ret' = [by |-> "none"]
    /\ UNCHANGED <<client, call, pc, ctxState, attempt, delay, err, target, lastResp,
                   sent, outcomes, waits, applied, other, config, configRet>>

\* one line is read and handled; after the break Text returns fullContent
TextRead ==
    /\ stream.pc = "reading"
    /\ stream' = TextIteration(stream)
    /\ ret' = IF stream'.pc = "returned"
              THEN [by |-> "Text", err |-> "nil", text |-> stream'.fullContent]
              ELSE ret
    /\ UNCHANGED <<client, call, pc, ctxState, attempt, delay, err, target, lastResp,
                   sent, outcomes, waits, applied, other, config, configRet>>

\* ReadString fails with an error that is not io.EOF
TextReadFail ==
    /\ stream.pc = "reading"
    /\ stream' = [stream EXCEPT !.pc = "returned"]
    /\ ret' = [by |-> "Text", err |-> "error reading stream", text |-> ""]
    /\ UNCHANGED <<client, call, pc, ctxState, attempt, delay, err, target, lastResp,
                   sent, outcomes, waits, applied, other, config, configRet>>

\* the caller has Text's result
TextReturn ==
    /\ stream.pc = "returned"
    /\ stream' = [pc |-> "idle"]
    /\ ret' = [by |-> "none"]
    /\ UNCHANGED <<client, call, pc, ctxState, attempt, delay, err, target, lastResp,
                   sent, outcomes, waits, applied, other, config, configRet>>

InitStream ==
    /\ Init
    /\ client = DefaultClient(APIKey)

NextStream ==
    \/ StartText
    \/ TextRead
    \/ TextReadFail
    \/ TextReturn

SpecStream == InitStream /\ [][NextStream]_vars

(***************************************************************************)
(* The callers above the client: KnowledgeClient.List and                  *)
(* ProfilesClient.List over Get, GenerateClient.Text over Post and the     *)
(* write command over Text.  A body of kind "object" stands for a document *)
(* that fits the caller's decode target.                                   *)
(***************************************************************************)
\* a JSON document the connection cut short
TruncatedBody == [kind |-> "text", raw |-> "[{\"id\":\"k1\""]

\* the message of json.Unmarshal's error on a body that is not a document
JsonErrorText(b) ==
    IF b = TruncatedBody
    THEN "unexpected end of JSON input"
    ELSE "invalid character 'T' looking for beginning of value"

\* the message of the error under "request failed" and "failed to read
\* response body"
CauseText(cause) ==
    CASE cause = "canceled"          -> "context canceled"
      [] cause = "deadline_exceeded" -> "context deadline exceeded"
      [] cause = "client_timeout"    -> "context deadline exceeded (Client.Timeout exceeded while awaiting headers)"
      [] OTHER                       -> "connection reset by peer"

\* err.Error() of every error a verb call returns; resp is the response the
\* last attempt decoded
CallErrorText(e, resp) ==
    CASE e.kind \in {"RateLimitError", "ErrorResponse", "status_error"} -> ErrorText(e)
      [] e.kind = "parse_response" -> "failed to parse response: " \o JsonErrorText(resp.body)
      [] e.kind = "request_failed" -> "request failed: " \o CauseText(e.cause)
      [] e.kind = "read_body"      -> "failed to read response body: " \o CauseText(e.cause)
      [] e.kind = "ctx"            -> CauseText(e.cause)
      [] e.kind = "marshal"        -> "failed to marshal request body: json: unsupported type"
      [] e.kind = "max_retries"    -> "max retries exceeded"

\* fmt.Errorf(msg + ": %w", e)
Wrapped(msg, e, resp) ==
    [kind |-> "wrapped", text |-> msg \o ": " \o CallErrorText(e, resp), cause |-> e]

\* a List that takes every error ending in the decoder's message for an
\* empty collection
ListResultMatchesSuffix(e, resp, tgt) ==
    IF e # NoError
    THEN IF e.kind = "parse_response"
              /\ JsonErrorText(resp.body) = "unexpected end of JSON input"
         THEN [items |-> [nil |-> FALSE, len |-> 0], err |-> NoError]
         ELSE [items |-> [nil |-> TRUE, len |-> 0],
               err |-> Wrapped("failed to list", e, resp)]
    ELSE [items |-> IF tgt = TargetUnset
                    THEN [nil |-> TRUE, len |-> 0]
                    ELSE [nil |-> FALSE, len |-> 1],
          err |-> NoError]

\* what List makes of the error and the target of its Get: [items, err]
ListResult(e, resp, tgt) ==
    IF e # NoError
    THEN IF CallErrorText(e, resp) = "unexpected end of JSON input"
         THEN [items |-> [nil |-> FALSE, len |-> 0], err |-> NoError]
         ELSE [items |-> [nil |-> TRUE, len |-> 0],
               err |-> Wrapped("failed to list", e, resp)]
    ELSE [items |-> IF tgt = TargetUnset
                    THEN [nil |-> TRUE, len |-> 0]
                    ELSE [nil |-> FALSE, len |-> 1],
          err |-> NoError]

\* what Text makes of the error of its Post
TextResult(e, resp) ==
    IF e # NoError THEN Wrapped("failed to generate text", e, resp) ELSE NoError

\* what runWrite returns for the error of Text: the type assertion
\* err.(*client.RateLimitError), then the generic message
WriteReport(e) ==
    IF e = NoError THEN ""
    ELSE IF IsRateLimitError(e)
    THEN IF IsPos(e.RetryAfterSeconds)
         THEN "Rate limit exceeded. Please try again in "
                  \o FormatInt(e.RetryAfterSeconds) \o " seconds"
         ELSE "Rate limit exceeded. Please wait before making another request"
    ELSE "text generation failed: " \o e.text

\* List is called: client.Get(ctx, path, &items)
StartList ==
    /\ pc = "idle"
    /\ \E p \in {<<"/", "knowledge">>, <<"/", "profiles">>}, d \in BOOLEAN :
        LET cl == VerbCall("Get", "GET", p, NilBody, TRUE, d)
        IN  /\ call' = cl
            /\ Issue(cl, 0, <<>>, <<>>)
    /\ ctxState' = "active"
    /\ delay' = I64(0)
    /\ target' = TargetUnset
    /\ waits' = 0
    /\ ret' = [by |-> "none"]
    /\ UNCHANGED <<client, applied, other, config, configRet, stream>>

\* runWrite calls Text with a context.WithTimeout: client.Post(ctx, "/query",
\* request, &response)
StartWrite ==
    /\ pc = "idle"
    /\ LET cl == VerbCall("Post", "POST", <<"/", "query">>, MapBody, TRUE, TRUE)
       IN  /\ call' = cl
           /\ Issue(cl, 0, <<>>, <<>>)
    /\ ctxState' = "active"
    /\ delay' = I64(0)
    /\ target' = TargetUnset
    /\ waits' = 0
    /\ ret' = [by |-> "none"]
    /\ UNCHANGED <<client, applied, other, config, configRet, stream>>

\* the response is cut off inside a JSON document
RespondTruncated ==
    /\ pc = "inflight"
    /\ \E st \in {200, StatusTooManyRequests} :
        LET resp == Resp(st, TruncatedBody, NoHeaders)
            r    == DecodeResponse(resp, call.hasTarget, target)
        IN  EndAttempt(r.err, r.target, resp)

\* the verb call is over and its caller returns
CallerReturn ==
    /\ pc = "done"
    /\ ret' = IF call.verb = "Get"
              THEN [by |-> "List", err |-> err, resp |-> lastResp,
                    result |-> ListResult(err, lastResp, target)]
              ELSE [by |-> "runWrite", err |-> err, resp |-> lastResp,
                    attempts |-> attempt + 1,
                    result |-> WriteReport(TextResult(err, lastResp))]
    /\ pc' = "idle"
    /\ call' = NoCall
    /\ ctxState' = "active"
    /\ attempt' = 0
    /\ delay' = I64(0)
    /\ err' = NoError
    /\ target' = TargetUnset
    /\ lastResp' = NoResponse
    /\ sent' = <<>>
    /\ outcomes' = <<>>
    /\ waits' = 0
    /\ UNCHANGED <<client, applied, other, config, configRet, stream>>

InitCallers ==
    /\ Init
    /\ client = DefaultClient(APIKey)

NextCallers ==
    \/ StartList
    \/ StartWrite
    \/ Respond
    \/ RespondTruncated
    \/ TransportFail
    \/ ClientTimeout
    \/ CtxCancel
    \/ CtxDeadline
    \/ CtxAbort
    \/ ReadBodyFail
    \/ WaitCancelled
    \/ TimerFire
    \/ CallerReturn

SpecCallers == InitCallers /\ [][NextCallers]_vars

(***************************************************************************)
(* The retry loop under a server that answers and timers that fire         *)
(***************************************************************************)
\* the round trip in flight comes to an end: a response, a transport
\* failure, a timeout or the context
AttemptEnds ==
    \/ Respond
    \/ HealthRespond
    \/ TransportFail
    \/ ClientTimeout
    \/ CtxAbort
    \/ ReadBodyFail

\* every round trip ends and every timer of time.After fires
SpecFair == Spec /\ WF_vars(AttemptEnds) /\ WF_vars(TimerFire)

(***************************************************************************)
(* Properties                                                              *)
(***************************************************************************)

RoundTrips == Len(sent)

LastOutcome == outcomes[Len(outcomes)]

\* C1: when every round trip of a call is answered with 429 and the context is
\* never cancelled, the call makes exactly 3 round trips and returns a
\* RateLimitError.
C1_AlwaysRateLimited ==
    (call.verb \in RetryingVerbs /\ pc = "done" /\ lastResp.status = 429
        /\ ctxState = "active")
        => (RoundTrips = 3 /\ err.kind = "RateLimitError")

\* C2: an attempt that ends in anything but a RateLimitError ends the call: every
\* attempt before the latest one ended in a RateLimitError, and a finished call
\* whose last attempt was not rate-limited returns that attempt's outcome
\* without a further round trip.
C2_NonRateLimitReturnsAtOnce ==
    /\ \A i \in 1..(Len(outcomes) - 1) : outcomes[i] = "RateLimitError"
    /\ pc \in {"inflight", "wait"} =>
          \A i \in 1..Len(outcomes) : outcomes[i] = "RateLimitError"
    /\ (pc = "done" /\ outcomes # <<>> /\ LastOutcome # "RateLimitError") =>
          (err.kind = LastOutcome /\ RoundTrips <= Len(outcomes))

\* a server error on the second attempt ended the call
C2_Witness ==
    /\ pc = "done"
    /\ outcomes = <<"RateLimitError", "ErrorResponse">>
    /\ RoundTrips = 2
    /\ err.kind = "ErrorResponse"

\* C3: every 429 response is decoded into a RateLimitError, whatever its body, and
\* is retried when it is not the last allowed attempt.
C3_Every429IsRateLimit ==
    (call.verb \in RetryingVerbs /\ lastResp.status = 429) =>
        /\ LastOutcome = "RateLimitError"
        /\ (attempt < 2 /\ ctxState = "active") => pc = "wait"

\* C4: a context that is done while the select is blocked ends the call with the
\* context's error and without another request; a finished call sends nothing.
C4_CancelDuringWait ==
    [][/\ (pc = "wait" /\ ctxState = "active" /\ ctxState' # "active") =>
            (pc' = "done" /\ err' = [kind |-> "ctx", cause |-> ctxState'] /\ sent' = sent)
       /\ pc = "done" => (pc' = "idle" /\ sent' = <<>>)]_vars

\* the call was cancelled while it waited after its latest round trip
C4_Witness ==
    /\ pc = "done"
    /\ err.kind = "ctx"
    /\ waits = RoundTrips
    /\ IsPos(delay)

\* the steps in which the context ends the call: Do or the body read returns
\* on the done context, the blocked select takes ctx.Done(), or the select is
\* entered with the context already done
CtxEndsCall ==
    \/ CtxAbort
    \/ (ReadBodyFail /\ ctxState # "active" /\ err'.cause # "network")
    \/ WaitCancelled
    \/ (Respond /\ call.verb \in RetryingVerbs /\ ctxState # "active" /\ pc' = "done"
        /\ LastOutcome' = "RateLimitError" /\ attempt < 2)

\* C5 as stated: a call ended by the context returns the context's error itself.
C5_ReturnsCtxErrItself ==
    (pc = "done" /\ "cause" \in DOMAIN err /\ err.cause = ctxState) => err.kind = "ctx"

\* C5 amended: a call ended by the context never returns a RateLimitError and
\* always carries the context's error: ctx.Err() itself out of the backoff
\* wait, and out of a round trip the "request failed" (or "failed to read
\* response body") error that wraps it.
C5_CarriesCtxErr ==
    [][CtxEndsCall =>
        /\ pc' = "done"
        /\ err'.kind \in {"ctx", "request_failed", "read_body"}
        /\ err'.cause = ctxState'
        /\ ctxState' # "active"
        /\ (pc = "wait" => err'.kind = "ctx")
        /\ (pc = "inflight" /\ lastResp' = NoResponse) =>
              err'.kind \in {"request_failed", "read_body"}]_vars

\* a round trip was cut short by the context
C5_Witness ==
    /\ pc = "done"
    /\ ctxState # "active"
    /\ err.kind = "request_failed"
    /\ err.cause = ctxState

\* the wait the spec prescribes, in whole seconds before the cap
SpecWait(retryAfter, n) ==
    IF IsPos(retryAfter)
    THEN (IF Gt(retryAfter, I64(60)) THEN Seconds(60) ELSE MulWrap(retryAfter, Second))
    ELSE Seconds(2^n)

\* C6: the wait after rate-limited attempt n is RetryAfterSeconds seconds when
\* that is positive and 2^n seconds otherwise, capped at 60 s.
C6_WaitIsRetryAfterOrBackoff ==
    pc = "wait" => delay = SpecWait(err.RetryAfterSeconds, attempt)

\* C7: no wait between two attempts exceeds 60 seconds.
C7_WaitAtMost60s ==
    pc = "wait" => ~Gt(delay, Seconds(60))

\* the server asked for more than 60 s and the call waits 60 s
C7_Witness ==
    /\ pc = "wait"
    /\ Gt(err.RetryAfterSeconds, I64(60))
    /\ delay = Seconds(60)

\* C8: after 3 rate-limited attempts the call returns the RateLimitError of the
\* third response, with that response's header values and body fields.
C8_LastRateLimitErrorReturned ==
    (pc = "done" /\ outcomes = <<"RateLimitError", "RateLimitError", "RateLimitError">>) =>
        /\ lastResp.status = 429
        /\ err.kind = "RateLimitError"
        /\ err.RetryAfterSeconds = IntHeader(lastResp.hdr.retryAfter)
        /\ err.RemainingRequests = IntHeader(lastResp.hdr.remaining)
        /\ err.ResetTime = TimeHeader(lastResp.hdr.reset)
        /\ err.ErrorMsg = lastResp.body.error
        /\ err.Message = lastResp.body.message
        /\ err.Code = lastResp.body.code

\* three rate-limited attempts, the last one advising 2 s
C8_Witness ==
    /\ pc = "done"
    /\ Len(outcomes) = 3
    /\ err.kind = "RateLimitError"
    /\ err.RetryAfterSeconds = I64(2)
    /\ lastResp.hdr = TypicalHeaders

\* C9: with a context that has no deadline a round trip cannot hang: the
\* timeout ends it.
C9_NoDeadlineCannotHang ==
    (pc = "inflight" /\ ~call.ctxDeadline /\ ctxState = "active") => ENABLED ClientTimeout

\* C10: every attempt of a call sends the same method, the same URL (the base
\* URL's segments followed by the path's, once) and the same body bytes.
C10_SameRequestEveryAttempt ==
    \A i \in 1..Len(sent) :
        /\ sent[i].method = call.method
        /\ sent[i].url = sent[1].url
        /\ sent[i].url[1] = client.baseURL[1]
        /\ Segments(sent[i].url, 2) = Segments(client.baseURL, 2) \o Segments(call.path, 1)
        /\ sent[i].body = sent[1].body
        /\ sent[i].hasBody = (call.body # NilBody)

\* a request with a body was sent three times to a base URL that has a path
C10_Witness ==
    /\ Len(sent) = 3
    /\ sent[1].hasBody
    /\ Len(client.baseURL) > 1

\* C11: every request the transport builds, with any method, with or without a
\* body, on every attempt, carries Authorization: Bearer <api key>,
\* Content-Type and Accept application/json, the configured User-Agent and
\* the API version header.
C11_HeadersOnEveryRequest ==
    \A i \in 1..Len(sent) :
        /\ DOMAIN sent[i].header =
              {"Authorization", "ContentType", "Accept", "UserAgent", "TCAPIVersion"}
        /\ sent[i].header.Authorization = <<"Bearer ", "test_key">>
        /\ sent[i].header.ContentType = "application/json"
        /\ sent[i].header.Accept = "application/json"
        /\ sent[i].header.UserAgent = client.userAgent
        /\ sent[i].header.TCAPIVersion = "v1"

\* the third attempt of a request without a body, sent by a client whose user
\* agent was set by an option
C11_Witness ==
    /\ Len(sent) = 3
    /\ ~sent[3].hasBody
    /\ client.userAgent = <<"my-agent">>
    /\ sent[3].header.UserAgent = <<"my-agent">>
    /\ sent[3].header.ContentType = "application/json"

\* C12: a response whose status is in [200, 400) and whose body has length zero
\* ends the call with no error and leaves the decode target as it was.
C12_EmptyBodyLeavesTarget ==
    [][(Respond /\ lastResp'.status >= 200 /\ lastResp'.status < 400
            /\ lastResp'.body = EmptyBody) =>
          (pc' = "done" /\ err' = NoError /\ target' = target)]_vars

\* a 304 without a body answered a call that passed a decode target
C12_Witness ==
    /\ pc = "done"
    /\ call.hasTarget
    /\ lastResp.status = 304
    /\ lastResp.body = EmptyBody
    /\ err = NoError
    /\ target = TargetUnset

\* the integer a header text denotes when it is a decimal numeral within the
\* range of int, as a 64-bit value
HeaderInteger ==
    [h \in HeaderValues |->
        CASE h = <<"0">>      -> [isInt |-> TRUE, val |-> I64(0)]
          [] h = <<"1">>      -> [isInt |-> TRUE, val |-> I64(1)]
          [] h = <<"2">>      -> [isInt |-> TRUE, val |-> I64(2)]
          [] h = <<"5">>      -> [isInt |-> TRUE, val |-> I64(5)]
          [] h = <<"6", "1">> -> [isInt |-> TRUE, val |-> I64(61)]
          [] h = <<"-", "1">> -> [isInt |-> TRUE, val |-> I64(-1)]
          [] h = UnixTs       -> [isInt |-> TRUE, val |-> I64(1700000000)]
          [] h = RetryAfterOverflowNeg ->
                [isInt |-> TRUE,
                 val |-> AddWrap(MulWrap(I64(9223372), I64(1000)), I64(37))]
          [] h = RetryAfterOverflowPos ->
                [isInt |-> TRUE,
                 val |-> AddWrap(MulWrap(I64(18446744), I64(1000)), I64(74))]
          [] OTHER            -> [isInt |-> FALSE, val |-> I64(0)]]

\* the field a header gives: its integer, or zero when absent or no integer
FieldOf(h) ==
    IF h # Absent /\ HeaderInteger[h].isInt THEN HeaderInteger[h].val ELSE I64(0)

\* C13: in the RateLimitError of a 429 response RemainingRequests, ResetTime and
\* RetryAfterSeconds are the integers of X-RateLimit-Remaining,
\* X-RateLimit-Reset (unix seconds) and Retry-After; a header that is absent
\* or no integer leaves its own field zero, leaves the other two fields alone
\* and does not change the kind of the error.
C13_RateLimitFieldsFromHeaders ==
    /\ err.kind = "RateLimitError" =>
        /\ lastResp.status = 429
        /\ err.RemainingRequests = FieldOf(lastResp.hdr.remaining)
        /\ err.RetryAfterSeconds = FieldOf(lastResp.hdr.retryAfter)
        /\ err.ResetTime =
              IF lastResp.hdr.reset # Absent /\ HeaderInteger[lastResp.hdr.reset].isInt
              THEN [isZero |-> FALSE, unix |-> HeaderInteger[lastResp.hdr.reset].val]
              ELSE ZeroTime
    /\ (call.verb # "Health" /\ lastResp.status = 429 /\ lastResp.body.kind = "object") =>
          LastOutcome = "RateLimitError"

\* two malformed headers next to a good Retry-After
C13_Witness ==
    /\ err.kind = "RateLimitError"
    /\ lastResp.hdr = Hdr(NotANumber, NotANumber, <<"1">>)
    /\ err.RemainingRequests = I64(0)
    /\ err.ResetTime = ZeroTime
    /\ err.RetryAfterSeconds = I64(1)

\* C14: a response with a status of 400 or more other than 429 gives, when its
\* body decodes as JSON, an ErrorResponse with exactly the body's error,
\* message and code, and otherwise a generic error whose text holds the
\* status code and the raw body.
C14_ErrorStatusDecoding ==
    (call.verb # "Health" /\ lastResp.status >= 400 /\ lastResp.status # 429) =>
        /\ pc = "done"
        /\ IF lastResp.body.kind = "object"
           THEN err = [kind     |-> "ErrorResponse",
                       ErrorMsg |-> lastResp.body.error,
                       Message  |-> lastResp.body.message,
                       Code     |-> lastResp.body.code]
           ELSE /\ err.kind = "status_error"
                /\ ErrorText(err) =
                      "API request failed with status " \o ToString(lastResp.status)
                      \o ": "
                      \o (IF lastResp.body = TextBody THEN "Too Many Requests" ELSE "")

\* a 500 with a plain-text body
C14_Witness ==
    /\ pc = "done"
    /\ lastResp.status = 500
    /\ lastResp.body = TextBody
    /\ err.kind = "status_error"
    /\ ErrorText(err) = "API request failed with status 500: Too Many Requests"

\* the characters of a header value as one string
RECURSIVE Joined(_, _)
Joined(s, i) == IF i > Len(s) THEN "" ELSE s[i] \o Joined(s, i + 1)

C16_PatchOneRoundTrip ==
    call.verb = "Patch" =>
        /\ RoundTrips <= 1
        /\ waits = 0
        /\ pc # "wait"
        /\ lastResp.status = 429 => (pc = "done" /\ err.kind = "RateLimitError")

\* the part of C16 that the decoding of 429 does not touch: a Patch never
\* waits and never sends a second request, whatever the answer
C16_PatchNeverRetries ==
    call.verb = "Patch" =>
        /\ RoundTrips <= 1
        /\ waits = 0
        /\ pc # "wait"
        /\ lastResp # NoResponse => pc = "done"

\* C17: Health makes exactly one GET round trip to the liveness path, is never
\* retried, a 429 included, and returns no error exactly when the status of
\* the response is in [200, 300).
C17_HealthOneGet ==
    call.verb = "Health" =>
        /\ RoundTrips <= 1
        /\ waits = 0
        /\ pc # "wait"
        /\ pc \in {"inflight", "done"} => RoundTrips = 1
        /\ \A i \in 1..Len(sent) :
              /\ sent[i].method = "GET"
              /\ ~sent[i].hasBody
              /\ sent[i].url[1] = client.baseURL[1]
              /\ Segments(sent[i].url, 2) = Segments(client.baseURL, 2) \o <<"ping">>
        /\ (pc = "done" /\ lastResp # NoResponse) =>
              (err = NoError <=> (lastResp.status >= 200 /\ lastResp.status < 300))
        /\ (pc = "done" /\ lastResp = NoResponse) => err # NoError

\* a health check answered with a decodable 429: one round trip and an error
C17_Witness ==
    /\ call.verb = "Health"
    /\ pc = "done"
    /\ RoundTrips = 1
    /\ lastResp.status = 429
    /\ lastResp.body = RateLimitBody
    /\ err = [kind |-> "health_failed", status |-> 429]

\* the position of the last applied option of a kind, 0 when there is none
LastOf(op) ==
    LET at == {i \in 1..Len(applied) : applied[i].op = op}
    IN  IF at = {} THEN 0 ELSE CHOOSE i \in at : \A j \in at : j <= i

\* the base URL, user agent, timeout field and transport follow the last
\* option of their kind, and the defaults stay where no option wrote
FieldsFollowLastWriter ==
    /\ client.apiKey = "test_key"
    /\ client.baseURL =
          IF LastOf("WithBaseURL") = 0 THEN <<"https://api.toneclone.ai">>
          ELSE LET u == applied[LastOf("WithBaseURL")].arg
               IN  IF u[Len(u)] = "/" THEN SubSeq(u, 1, Len(u) - 1) ELSE u
    /\ client.userAgent =
          IF LastOf("WithUserAgent") = 0 THEN <<"toneclone-cli/", "v1">>
          ELSE applied[LastOf("WithUserAgent")].arg
    /\ client.httpClient.id =
          IF LastOf("WithHTTPClient") = 0 THEN "own"
          ELSE applied[LastOf("WithHTTPClient")].arg.id
    /\ client.timeout =
          IF LastOf("WithTimeout") = 0 THEN 30
          ELSE applied[LastOf("WithTimeout")].arg

C18_TimeoutOfLastWriter ==
    pc = "new" =>
        /\ FieldsFollowLastWriter
        /\ client.httpClient.Timeout =
              IF LastOf("WithTimeout") = 0 /\ LastOf("WithHTTPClient") = 0 THEN 30
              ELSE IF LastOf("WithTimeout") > LastOf("WithHTTPClient")
              THEN applied[LastOf("WithTimeout")].arg
              ELSE applied[LastOf("WithHTTPClient")].arg.Timeout

\* C19: calls by several callers on one Client do not interfere: no step of a
\* verb call writes a field of the Client, and every step of one caller
\* leaves the attempt counter, the delay and every other variable of the
\* other caller's call alone; so what the first caller sees, step by step, is
\* a run of its call alone, with the same round trips and the same outcome.
C19_CallsDoNotInterfere ==
    [][/\ client' = client
       /\ Next \/ UNCHANGED callerVars
       /\ other' # other => UNCHANGED callerVars]_vars

\* both callers in the middle of their calls, at different attempts
C19_Witness ==
    /\ pc = "wait"
    /\ attempt = 1
    /\ RoundTrips = 2
    /\ other.pc = "inflight"
    /\ other.attempt = 2
    /\ other.roundTrips = 3

\* C20: after NewClient has returned no exported operation changes the
\* configuration of the client: base URL, API key, user agent and the timeout
\* applied to requests stay as they were, after any sequence of calls.
C20_ConfigurationFixed ==
    [][/\ client'.baseURL = client.baseURL
       /\ client'.apiKey = client.apiKey
       /\ client'.userAgent = client.userAgent
       /\ client'.httpClient.Timeout = client.httpClient.Timeout]_vars

\* C20 amended: base URL, API key, user agent, the timeout field and the
\* transport stay as they were; the timeout applied to requests changes in
\* the steps of SetTimeout and in no other.
C20_OnlySetTimeoutChangesTimeout ==
    [][/\ client'.baseURL = client.baseURL
       /\ client'.apiKey = client.apiKey
       /\ client'.userAgent = client.userAgent
       /\ client'.timeout = client.timeout
       /\ client'.httpClient.id = client.httpClient.id
       /\ client'.httpClient.Timeout # client.httpClient.Timeout =>
             (pc = "idle" /\ pc' = "idle"
              /\ client'.httpClient.Timeout \in SetTimeoutInputs
              /\ UNCHANGED <<call, err, target, sent>>)]_vars

\* a call finished on a client whose timeout SetTimeout took away
C20_Witness ==
    /\ pc = "done"
    /\ call.verb = "Get"
    /\ client.timeout = 5
    /\ client.httpClient.Timeout = 0
    /\ RoundTrips = 3

\* DefaultKey is empty when there is no key and names a key otherwise
DefaultKeyValid(c) ==
    IF KeyNames(c) = {} THEN c.DefaultKey = "" ELSE c.DefaultKey \in KeyNames(c)

C22_UnknownNameIsAnError ==
    [][/\ (configRet'.op \in {"RemoveKey", "SetDefaultKey"}
           /\ configRet'.name \notin KeyNames(config)) =>
              (configRet'.err /\ config' = config)
       /\ configRet'.err => config' = config]_vars

\* SetDefaultKey("nonexistent") failed on a store with two keys
C22_Witness ==
    /\ configRet = [op |-> "SetDefaultKey", name |-> "nonexistent", err |-> TRUE]
    /\ KeyNames(config) = {"test1", "test2"}
    /\ config.DefaultKey = "test1"

\* C23: every call through the retry loop terminates, whatever the server
\* answers and whenever the context is cancelled: it makes at most 3 round
\* trips and at most 2 waits, and once started it comes to its return.
C23_CallTerminates ==
    /\ [](RoundTrips <= 3 /\ waits <= 2)
    /\ (pc \in {"inflight", "wait"}) ~> (pc = "done")

\* a call that used up its round trips and waits on a mix of outcomes: two
\* rate-limited attempts and a server error
C23_Witness ==
    /\ pc = "done"
    /\ call.verb \in RetryingVerbs
    /\ RoundTrips = 3
    /\ waits = 2
    /\ outcomes = <<"RateLimitError", "RateLimitError", "ErrorResponse">>

\* C24: within one verb call the attempts are strictly sequential: attempt
\* n+1 starts only out of the wait that followed a RateLimitError of attempt
\* n, when its timer fires; at most one round trip of the call is in flight;
\* no wait follows the last allowed attempt.
C24_AttemptsSequential ==
    /\ [](pc = "inflight" => Len(sent) = Len(outcomes) + 1)
    /\ [](pc \in {"wait", "done"} => Len(sent) <= Len(outcomes))
    /\ [](pc = "wait" => (attempt < 2 /\ LastOutcome = "RateLimitError"
                            /\ Len(outcomes) = attempt + 1))
    /\ [][(pc \in {"inflight", "wait"} /\ (attempt' # attempt \/ Len(sent') > Len(sent))) =>
            /\ pc = "wait"
            /\ IsRateLimitError(err)
            /\ LastOutcome = "RateLimitError"
            /\ attempt' = attempt + 1
            /\ Len(sent') = Len(sent) + 1
            /\ outcomes' = outcomes
            /\ pc' = "inflight"]_vars

\* the third attempt is in flight after two rate-limited ones, each followed
\* by its wait
C24_Witness ==
    /\ pc = "inflight"
    /\ attempt = 2
    /\ Len(sent) = 3
    /\ outcomes = <<"RateLimitError", "RateLimitError">>
    /\ waits = 2

\* C28: doRequestWithRetry never returns "max retries exceeded": every call
\* returns from inside the loop, a RateLimitError only from the last attempt,
\* and a fired timer always leads to the next attempt, so the statement after
\* the loop is not reached.
C28_NeverMaxRetriesExceeded ==
    /\ [](err.kind # "max_retries")
    /\ []((pc = "done" /\ call.verb \in RetryingVerbs /\ IsRateLimitError(err)) =>
            attempt = maxRetries - 1)
    /\ [][TimerFire => (pc' = "inflight" /\ attempt' < maxRetries)]_vars

\* the call returned the RateLimitError of its last attempt, from inside the
\* loop
C28_Witness ==
    /\ pc = "done"
    /\ call.verb \in RetryingVerbs
    /\ attempt = maxRetries - 1
    /\ IsRateLimitError(err)
    /\ waits = 2

\* C29: for every integer Retry-After the decoder accepts, the wait the retry
\* loop computes is at least 1 second and at most 60 seconds.
C29_WaitBetween1sAnd60s ==
    pc = "wait" => (~Gt(Seconds(1), delay) /\ ~Gt(delay, Seconds(60)))

\* C30: the decode target is written only by an attempt that ends with a
\* successful status and a non-empty body: while a call runs, waits or has
\* returned an error (RateLimitError, API error, transport error,
\* cancellation) the target is as the caller passed it.
C30_TargetWrittenOnlyOnSuccess ==
    /\ [](target # TargetUnset =>
            /\ pc = "done"
            /\ call.hasTarget
            /\ err = NoError
            /\ lastResp.status >= 200 /\ lastResp.status < 400
            /\ lastResp.body # EmptyBody)
    /\ [][(pc \in {"inflight", "wait"} /\ target' # target) =>
            (Respond /\ outcomes'[Len(outcomes')] = "nil")]_vars

\* a call with a decode target returned the RateLimitError of its third
\* attempt, whose body was a JSON object, and the target is as passed
C30_Witness ==
    /\ pc = "done"
    /\ call.hasTarget
    /\ Len(outcomes) = 3
    /\ IsRateLimitError(err)
    /\ lastResp.body.kind = "object"
    /\ target = TargetUnset

\* the lines of a body, the last one whether or not a '\n' ends it
RECURSIVE LinesOf(_)
LinesOf(body) ==
    IF body = <<>> THEN <<>>
    ELSE LET r == ReadString(body, 1)
         IN  <<r.line>> \o LinesOf(SubSeq(body, r.next, Len(body)))

\* the chunk a line carries when it is a well-formed data frame
FrameOf(line) == UnmarshalChunk(TrimPrefix(TrimSpace(line), "data:"))

IsFrame(line) == HasPrefix(TrimSpace(line), "data:") /\ FrameOf(line).ok

RECURSIVE ContentOfFrames(_, _)
ContentOfFrames(lines, i) ==
    IF i > Len(lines) THEN ""
    ELSE (IF IsFrame(lines[i]) THEN FrameOf(lines[i]).Content ELSE "")
         \o ContentOfFrames(lines, i + 1)

\* the text the frames of these lines stand for: the content of the first
\* frame marked done, else every frame's content in order
TextOfLines(lines) ==
    LET dones == {i \in 1..Len(lines) : IsFrame(lines[i]) /\ FrameOf(lines[i]).Done}
    IN  IF dones # {}
        THEN FrameOf(lines[CHOOSE i \in dones : \A j \in dones : i <= j]).Content
        ELSE ContentOfFrames(lines, 1)

\* C25: the streaming Text returns the content of the first data frame marked
\* done when one is received, and otherwise the concatenation in arrival
\* order of the content of every well-formed data frame received before end
\* of stream; other lines and malformed chunks contribute nothing.
C25_StreamedText ==
    (ret.by = "Text" /\ ret.err = "nil") =>
        ret.text = TextOfLines(LinesOf(stream.body))

\* the same for bodies whose last line is ended by '\n'
C25_StreamedTextOfTerminatedLines ==
    (ret.by = "Text" /\ ret.err = "nil"
        /\ (stream.body = <<>> \/ stream.body[Len(stream.body)] = Nl)) =>
        ret.text = TextOfLines(LinesOf(stream.body))

\* a stream of two frames and a malformed chunk between them, read to its end
C25_TerminatedWitness ==
    /\ ret.by = "Text"
    /\ ret.err = "nil"
    /\ stream.body # <<>>
    /\ stream.body[Len(stream.body)] = Nl
    /\ Len(LinesOf(stream.body)) = 3
    /\ ret.text = "Hello"

C27_WriteReportsRateLimit ==
    (ret.by = "runWrite" /\ IsRateLimitError(ret.err)) =>
        ret.result = IF IsPos(ret.err.RetryAfterSeconds)
                     THEN "Rate limit exceeded. Please try again in "
                              \o FormatInt(ret.err.RetryAfterSeconds) \o " seconds"
                     ELSE "Rate limit exceeded. Please wait before making another request"
====
